---- MODULE Spec2Model ----
(***************************************************************************)
(* Model of the document upload pipeline of src/routes/summaryRoutes.js:   *)
(* the in-memory registry fileProcessingStatus, the upload handler, the    *)
(* background task processFileAsync and the status / document / list /     *)
(* delete handlers, and of the generate-summary and qna handlers of the    *)
(* LLM gateway.                                                            *)
(*                                                                         *)
(* JavaScript runs one synchronous segment at a time.  A handler is cut at *)
(* its registry writes and at its awaits; while a task stands inside a     *)
(* synchronous segment (pc in SyncPcs) no other handler may step, so the   *)
(* states in the middle of a segment exist but are seen by no request.     *)
(*                                                                         *)
(* A JavaScript object is a function from the names of the fields it has   *)
(* to their values: a field that was never assigned is not in the DOMAIN.  *)
(* A text is a sequence of chunks: a chunk is a run of whitespace, a       *)
(* keyword occurrence or a filler word.                                    *)
(***************************************************************************)
EXTENDS Integers, Sequences, FiniteSets, TLC

\* ------------------------------------------------------------------ bounds

\* Number of upload requests with a file that the model accepts.
MaxUploads == 2

\* Occurrences of each risk keyword in the texts given to the risk scorer.
MaxCount == 4

\* Keyword score of each label in the texts given to the classifier.
MaxScore == 2

\* Chunks of the texts given to the word count.
MaxTextLen == 4

\* Number of generate-summary and qna requests the model accepts.
MaxRequests == 2

\* ------------------------------------------------------- program constants

\* limits: { fileSize: 10 * 1024 * 1024 }
FileSizeLimit == 10 * 1024 * 1024

PDF == "application/pdf"
DOC == "application/msword"
DOCX == "application/vnd.openxmlformats-officedocument.wordprocessingml.document"
TXT == "text/plain"

\* The MIME types a request may declare.
MimeTypes == {PDF, DOC, DOCX, TXT}

\* const allowedTypes = [...]
allowedTypes == {PDF, DOC, DOCX}

\* mimetype.includes('wordprocessingml')
IncludesWordprocessingml(mimetype) == mimetype = DOCX

\* ------------------------------------------------------------------- texts

WS == " "

\* String.prototype.toLowerCase, chunk by chunk.
LowerChunk(c) ==
  CASE c = "CONFIDENTIAL" -> "confidential"
    [] c = "Liability" -> "liability"
    [] OTHER -> c

toLowerCase(text) == [i \in DOMAIN text |-> LowerChunk(text[i])]

\* (textLower.match(new RegExp(keyword, 'g')) || []).length
occurrences(textLower, keyword) ==
  Cardinality({i \in DOMAIN textLower : textLower[i] = keyword})

RECURSIVE SumOccurrences(_, _)
\* keywords.reduce((acc, keyword) => acc + occurrences, 0)
SumOccurrences(textLower, keywords) ==
  IF keywords = << >> THEN 0
  ELSE occurrences(textLower, Head(keywords))
       + SumOccurrences(textLower, Tail(keywords))

\* const types = {...}, in Object.entries order.
types ==
  << [type |-> "NDA", keywords |-> <<"non-disclosure", "confidential">>],
     [type |-> "Employment Agreement", keywords |-> <<"employment", "employee">>],
     [type |-> "Service Agreement", keywords |-> <<"services", "contractor">>],
     [type |-> "License Agreement", keywords |-> <<"license", "licensing">>] >>

RECURSIVE ClassifyLoopLastWins(_, _, _, _)
\* Faulty variant: the comparison is >=, so the last of the best labels wins.
ClassifyLoopLastWins(textLower, i, maxScore, documentType) ==
  IF i > Len(types) THEN documentType
  ELSE LET score == SumOccurrences(textLower, types[i].keywords)
       IN IF score >= maxScore
          THEN ClassifyLoopLastWins(textLower, i + 1, score, types[i].type)
          ELSE ClassifyLoopLastWins(textLower, i + 1, maxScore, documentType)

RECURSIVE ClassifyLoop(_, _, _, _)
\* The for loop of classifyDocument from entry i on.
ClassifyLoop(textLower, i, maxScore, documentType) ==
  IF i > Len(types) THEN documentType
  ELSE LET score == SumOccurrences(textLower, types[i].keywords)
       IN IF score > maxScore
          THEN ClassifyLoop(textLower, i + 1, score, types[i].type)
          ELSE ClassifyLoop(textLower, i + 1, maxScore, documentType)

classifyDocument(text) == ClassifyLoop(toLowerCase(text), 1, 0, "Unknown")

riskKeywords == <<"indemnification", "liability", "damages", "termination">>

\* Math.round(x) for the non-negative rational x = num / den.
MathRound(num, den) == (2 * num + den) \div (2 * den)

Min(a, b) == IF a < b THEN a ELSE b

\* Faulty variant: Math.floor in place of Math.round.
calculateRiskScoreFloor(text) ==
  LET riskCount == SumOccurrences(toLowerCase(text), riskKeywords)
      maxRisk == Len(riskKeywords) * 3
  IN Min((riskCount * 100) \div maxRisk, 100)

calculateRiskScore(text) ==
  LET riskCount == SumOccurrences(toLowerCase(text), riskKeywords)
      maxRisk == Len(riskKeywords) * 3
  IN Min(MathRound(riskCount * 100, maxRisk), 100)

\* text.split(/\s+/).length: one piece more than the maximal whitespace runs.
SplitWhitespaceLength(text) ==
  1 + Cardinality({i \in DOMAIN text :
                      text[i] = WS /\ (i = 1 \/ text[i - 1] # WS)})

\* ----------------------------------------------------------------- objects

EmptyObject == [k \in {} |-> 0]

\* { ...base, ...fields }
Spread(base, fields) ==
  [k \in DOMAIN base \cup DOMAIN fields |->
     IF k \in DOMAIN fields THEN fields[k] ELSE base[k]]

Has(obj, k) == k \in DOMAIN obj

FieldIs(obj, k, v) == k \in DOMAIN obj /\ obj[k] = v

\* --------------------------------------------------------------------- Map
\* A Map is the sequence of its entries <<key, value>> in insertion order.

MapKeys(m) == {m[i][1] : i \in DOMAIN m}

MapHas(m, key) == key \in MapKeys(m)

MapIndex(m, key) == CHOOSE i \in DOMAIN m : m[i][1] = key

\* Map.prototype.get, for a key the map has.
MapGet(m, key) == m[MapIndex(m, key)][2]

\* ...fileProcessingStatus.get(fileId): spreading undefined adds no field.
MapGetOrEmpty(m, key) == IF MapHas(m, key) THEN MapGet(m, key) ELSE EmptyObject

\* Map.prototype.set: replaces in place, or appends a new entry.
MapSet(m, key, value) ==
  IF MapHas(m, key)
  THEN [m EXCEPT ![MapIndex(m, key)] = <<key, value>>]
  ELSE Append(m, <<key, value>>)

\* Map.prototype.delete
MapDelete(m, key) ==
  IF MapHas(m, key)
  THEN LET j == MapIndex(m, key)
       IN [i \in 1..(Len(m) - 1) |-> IF i < j THEN m[i] ELSE m[i + 1]]
  ELSE m

\* Array.from(map.values())
MapValues(m) == [i \in DOMAIN m |-> m[i][2]]

\* res.json drops the fields whose value is undefined.
Select(obj, keys) == [k \in keys \cap DOMAIN obj |-> obj[k]]

\* ------------------------------------------------------------------- state

VARIABLES
  fileProcessingStatus, \* the registry: Map fileId -> status record
  disk,                 \* the paths of the files in uploadsDir
  pc,                   \* pc[fileId]: where the upload's handler and task stand
  params,               \* params[fileId]: the arguments of processFileAsync
  extractedData,        \* extractedData[fileId]: the local of processFileAsync
  uploadRes,            \* uploadRes[fileId]: what the upload request's res sent
  resp,                 \* the HTTP response the last step emitted
  llm                   \* llm[n]: the n-th generate-summary or qna request

vars ==
  <<fileProcessingStatus, disk, pc, params, extractedData, uploadRes, resp, llm>>

\* uuidv4() of the handler: the n-th accepted upload gets the fileId n.
FileIds == 1..MaxUploads

\* A :fileId of a request: every id an upload may get, and one it never gets.
RequestIds == 0..MaxUploads

OriginalNames == {"contract"}

FileSizes == {2048, FileSizeLimit + 1}

\* What the parser may hand back as the text of a document.
ExtractedTexts ==
  { << >>,
    <<WS, "lorem">>,
    <<"CONFIDENTIAL", WS, "Liability", WS, "termination">> }

\* The messages of the errors a parser may throw.
ParserErrors == {"Invalid PDF structure"}

\* Positions inside a synchronous segment: nothing else runs meanwhile.
SyncPcs == {"created", "responded", "started", "analyzing"}

Idle == \A id \in DOMAIN pc : pc[id] \notin SyncPcs

NoResponse == [op |-> "none"]

Response(op, fileId, status, body) ==
  [op |-> op, fileId |-> fileId, status |-> status, body |-> body]

\* destination and filename of multer.diskStorage: uploadsDir/<uuid>-<originalname>
StoredPath(n, originalName) == [dir |-> "uploads", name |-> <<n, originalName>>]

\* new Date().toISOString() of the n-th accepted upload.
Timestamp(n) == <<"uploadedAt", n>>

Init ==
  /\ fileProcessingStatus = << >>
  /\ disk = {}
  /\ pc = << >>
  /\ params = << >>
  /\ extractedData = << >>
  /\ uploadRes = << >>
  /\ resp = NoResponse
  /\ llm = << >>

\* ------------------------------------------------------------------ upload

\* if (!req.file) return res.status(400).json(...)
UploadNoFile ==
  /\ Idle
  /\ resp' = Response("upload", 0, 400, [error |-> "No file uploaded"])
  /\ UNCHANGED <<fileProcessingStatus, disk, pc, params, extractedData, uploadRes, llm>>

\* multer refuses the file (fileFilter, limits): the handler never runs and
\* nothing is stored; Express answers with the error.
UploadRejected(mimetype, size) ==
  /\ Idle
  /\ mimetype \notin allowedTypes \/ size > FileSizeLimit
  /\ resp' = Response("upload", 0, 500,
                      [error |-> IF mimetype \notin allowedTypes
                                 THEN "Only PDF, DOC, DOCX allowed"
                                 ELSE "File too large"])
  /\ UNCHANGED <<fileProcessingStatus, disk, pc, params, extractedData, uploadRes, llm>>

\* Faulty variant: the initial record is given progress 0.
FileInfoWithProgress(fileId, originalName, mimetype, size) ==
  [id |-> fileId, originalName |-> originalName, mimetype |-> mimetype,
   size |-> size, status |-> "processing", uploadedAt |-> Timestamp(fileId),
   progress |-> 0]

\* const fileInfo = {...}
FileInfo(fileId, originalName, mimetype, size) ==
  [id |-> fileId, originalName |-> originalName, mimetype |-> mimetype,
   size |-> size, status |-> "processing", uploadedAt |-> Timestamp(fileId)]

\* multer stores the file; the handler builds fileInfo and registers it.
UploadCreate(mimetype, originalName, size) ==
  /\ Idle
  /\ Len(pc) < MaxUploads
  /\ mimetype \in allowedTypes
  /\ size <= FileSizeLimit
  /\ LET fileId == Len(pc) + 1
         filePath == StoredPath(fileId, originalName)
         fileInfo == FileInfo(fileId, originalName, mimetype, size)
     IN /\ disk' = disk \cup {filePath}
        /\ fileProcessingStatus' = MapSet(fileProcessingStatus, fileId, fileInfo)
        /\ pc' = Append(pc, "created")
        /\ params' = Append(params, [fileId |-> fileId, filePath |-> filePath,
                                     mimetype |-> mimetype, fileInfo |-> fileInfo])
        /\ extractedData' = Append(extractedData, EmptyObject)
        /\ uploadRes' = Append(uploadRes, << >>)
  /\ resp' = NoResponse
  /\ UNCHANGED llm

\* res.json({ success: true, fileId, message, file: fileInfo })
UploadRespond(fileId) ==
  /\ fileId \in DOMAIN pc
  /\ pc[fileId] = "created"
  /\ LET r == Response("upload", fileId, 200,
                       [success |-> TRUE, fileId |-> fileId,
                        message |-> "File uploaded successfully. Processing started.",
                        file |-> params[fileId].fileInfo])
     IN /\ uploadRes' = [uploadRes EXCEPT ![fileId] = Append(@, r)]
        /\ resp' = r
  /\ pc' = [pc EXCEPT ![fileId] = "responded"]
  /\ UNCHANGED <<fileProcessingStatus, disk, params, extractedData, llm>>

\* -------------------------------------------------------- processFileAsync

\* Faulty variant: the catch block records the status and drops the message.
CatchErrorNoMessage(m, fileId, message) ==
  MapSet(m, fileId, Spread(MapGetOrEmpty(m, fileId), [status |-> "error"]))

\* Faulty variant: the catch block resets the progress.
CatchErrorResetsProgress(m, fileId, message) ==
  MapSet(m, fileId,
         Spread(MapGetOrEmpty(m, fileId),
                [status |-> "error", error |-> message, progress |-> 0]))

\* catch (error) { fileProcessingStatus.set(fileId, {...get, status, error}) }
CatchError(m, fileId, message) ==
  MapSet(m, fileId,
         Spread(MapGetOrEmpty(m, fileId), [status |-> "error", error |-> message]))

\* fileProcessingStatus.set(fileId, { ...fileInfo, progress: 20, stage })
ProcessStart(fileId) ==
  /\ fileId \in DOMAIN pc
  /\ pc[fileId] = "responded"
  /\ fileProcessingStatus' =
       MapSet(fileProcessingStatus, fileId,
              Spread(params[fileId].fileInfo,
                     [progress |-> 20, stage |-> "extracting_text"]))
  /\ pc' = [pc EXCEPT ![fileId] = "started"]
  /\ resp' = NoResponse
  /\ UNCHANGED <<disk, params, extractedData, uploadRes, llm>>

\* The if / else if / else on mimetype, up to the first await or throw.
ProcessDispatch(fileId) ==
  /\ fileId \in DOMAIN pc
  /\ pc[fileId] = "started"
  /\ LET mimetype == params[fileId].mimetype
     IN IF mimetype = PDF /\ params[fileId].filePath \notin disk
        THEN \* fs.readFileSync throws before the first await
             /\ fileProcessingStatus' =
                  CatchError(fileProcessingStatus, fileId, "ENOENT: no such file")
             /\ pc' = [pc EXCEPT ![fileId] = "finished"]
        ELSE IF mimetype = PDF \/ IncludesWordprocessingml(mimetype)
        THEN \* await extractTextFromPDF / extractTextFromWord
             /\ pc' = [pc EXCEPT ![fileId] = "awaiting"]
             /\ UNCHANGED fileProcessingStatus
        ELSE \* throw new Error('Unsupported file type')
             /\ fileProcessingStatus' =
                  CatchError(fileProcessingStatus, fileId, "Unsupported file type")
             /\ pc' = [pc EXCEPT ![fileId] = "finished"]
  /\ resp' = NoResponse
  /\ UNCHANGED <<disk, params, extractedData, uploadRes, llm>>

\* Faulty variant: the text is stored as soon as it is extracted.
ProcessAnalyzeStoresText(fileId, text) ==
  /\ Idle
  /\ fileId \in DOMAIN pc
  /\ pc[fileId] = "awaiting"
  /\ extractedData' = [extractedData EXCEPT ![fileId] = [text |-> text]]
  /\ fileProcessingStatus' =
       MapSet(fileProcessingStatus, fileId,
              Spread(MapGetOrEmpty(fileProcessingStatus, fileId),
                     [progress |-> 70, stage |-> "analyzing_content",
                      extractedText |-> text]))
  /\ pc' = [pc EXCEPT ![fileId] = "analyzing"]
  /\ resp' = NoResponse
  /\ UNCHANGED <<disk, params, uploadRes, llm>>

\* Faulty variant: the update goes to the record of the latest upload.
ProcessAnalyzeLatest(fileId, text) ==
  /\ Idle
  /\ fileId \in DOMAIN pc
  /\ pc[fileId] = "awaiting"
  /\ extractedData' = [extractedData EXCEPT ![fileId] = [text |-> text]]
  /\ fileProcessingStatus' =
       MapSet(fileProcessingStatus, Len(pc),
              Spread(MapGetOrEmpty(fileProcessingStatus, Len(pc)),
                     [progress |-> 70, stage |-> "analyzing_content"]))
  /\ pc' = [pc EXCEPT ![fileId] = "analyzing"]
  /\ resp' = NoResponse
  /\ UNCHANGED <<disk, params, uploadRes, llm>>

\* The awaited extractor returns { text }: set progress 70, analyzing_content.
ProcessAnalyze(fileId, text) ==
  /\ Idle
  /\ fileId \in DOMAIN pc
  /\ pc[fileId] = "awaiting"
  /\ extractedData' = [extractedData EXCEPT ![fileId] = [text |-> text]]
  /\ fileProcessingStatus' =
       MapSet(fileProcessingStatus, fileId,
              Spread(MapGetOrEmpty(fileProcessingStatus, fileId),
                     [progress |-> 70, stage |-> "analyzing_content"]))
  /\ pc' = [pc EXCEPT ![fileId] = "analyzing"]
  /\ resp' = NoResponse
  /\ UNCHANGED <<disk, params, uploadRes, llm>>

\* Faulty variant: the final set leaves the stage as it is.
ProcessCompleteKeepsStage(fileId) ==
  /\ fileId \in DOMAIN pc
  /\ pc[fileId] = "analyzing"
  /\ LET text == extractedData[fileId].text
         documentType == classifyDocument(text)
         riskScore == calculateRiskScore(text)
     IN fileProcessingStatus' =
          MapSet(fileProcessingStatus, fileId,
                 Spread(MapGetOrEmpty(fileProcessingStatus, fileId),
                        [progress |-> 100, status |-> "completed",
                         extractedText |-> text, documentType |-> documentType,
                         riskScore |-> riskScore,
                         wordCount |-> SplitWhitespaceLength(text)]))
  /\ pc' = [pc EXCEPT ![fileId] = "finished"]
  /\ resp' = NoResponse
  /\ UNCHANGED <<disk, params, extractedData, uploadRes, llm>>

\* classifyDocument, calculateRiskScore and the final set of the record.
ProcessComplete(fileId) ==
  /\ fileId \in DOMAIN pc
  /\ pc[fileId] = "analyzing"
  /\ LET text == extractedData[fileId].text
         documentType == classifyDocument(text)
         riskScore == calculateRiskScore(text)
     IN fileProcessingStatus' =
          MapSet(fileProcessingStatus, fileId,
                 Spread(MapGetOrEmpty(fileProcessingStatus, fileId),
                        [progress |-> 100, status |-> "completed", stage |-> "done",
                         extractedText |-> text, documentType |-> documentType,
                         riskScore |-> riskScore,
                         wordCount |-> SplitWhitespaceLength(text)]))
  /\ pc' = [pc EXCEPT ![fileId] = "finished"]
  /\ resp' = NoResponse
  /\ UNCHANGED <<disk, params, extractedData, uploadRes, llm>>

\* Faulty variant: an error raised after the task has finished is caught as well.
ProcessCatchLate(fileId, message) ==
  /\ Idle
  /\ fileId \in DOMAIN pc
  /\ pc[fileId] \in {"awaiting", "finished"}
  /\ fileProcessingStatus' = CatchError(fileProcessingStatus, fileId, message)
  /\ pc' = [pc EXCEPT ![fileId] = "finished"]
  /\ resp' = NoResponse
  /\ UNCHANGED <<disk, params, extractedData, uploadRes, llm>>

\* Faulty variant: the catch block answers the upload request with the failure.
ProcessCatchResponds(fileId, message) ==
  /\ Idle
  /\ fileId \in DOMAIN pc
  /\ pc[fileId] = "awaiting"
  /\ fileProcessingStatus' = CatchError(fileProcessingStatus, fileId, message)
  /\ pc' = [pc EXCEPT ![fileId] = "finished"]
  /\ LET r == Response("upload", fileId, 500, [error |-> message])
     IN /\ uploadRes' = [uploadRes EXCEPT ![fileId] = Append(@, r)]
        /\ resp' = r
  /\ UNCHANGED <<disk, params, extractedData, llm>>

\* The awaited extractor throws: the catch block records the error.
ProcessCatch(fileId, message) ==
  /\ Idle
  /\ fileId \in DOMAIN pc
  /\ pc[fileId] = "awaiting"
  /\ fileProcessingStatus' = CatchError(fileProcessingStatus, fileId, message)
  /\ pc' = [pc EXCEPT ![fileId] = "finished"]
  /\ resp' = NoResponse
  /\ UNCHANGED <<disk, params, extractedData, uploadRes, llm>>

\* ---------------------------------------------------------------- requests

\* router.get('/status/:fileId')
GetStatus(fileId) ==
  /\ Idle
  /\ resp' = IF ~MapHas(fileProcessingStatus, fileId)
             THEN Response("getStatus", fileId, 404, [error |-> "File not found"])
             ELSE Response("getStatus", fileId, 200,
                           MapGet(fileProcessingStatus, fileId))
  /\ UNCHANGED <<fileProcessingStatus, disk, pc, params, extractedData, uploadRes, llm>>

DocumentFields ==
  {"id", "originalName", "documentType", "riskScore", "wordCount",
   "extractedText", "uploadedAt", "completedAt"}

\* Faulty variant: every record that is no longer `processing` gets the full payload.
GetDocumentNotProcessing(fileId) ==
  /\ Idle
  /\ resp' =
       IF ~MapHas(fileProcessingStatus, fileId)
       THEN Response("getDocument", fileId, 404, [error |-> "File not found"])
       ELSE LET fileData == MapGet(fileProcessingStatus, fileId)
            IN IF FieldIs(fileData, "status", "processing")
               THEN Response("getDocument", fileId, 202,
                             Spread([message |-> "File is still processing"],
                                    Select(fileData, {"status", "progress"})))
               ELSE Response("getDocument", fileId, 200,
                             Select(fileData, DocumentFields))
  /\ UNCHANGED <<fileProcessingStatus, disk, pc, params, extractedData, uploadRes, llm>>

\* router.get('/document/:fileId')
GetDocument(fileId) ==
  /\ Idle
  /\ resp' =
       IF ~MapHas(fileProcessingStatus, fileId)
       THEN Response("getDocument", fileId, 404, [error |-> "File not found"])
       ELSE LET fileData == MapGet(fileProcessingStatus, fileId)
            IN IF ~FieldIs(fileData, "status", "completed")
               THEN Response("getDocument", fileId, 202,
                             Spread([message |-> "File is still processing"],
                                    Select(fileData, {"status", "progress"})))
               ELSE Response("getDocument", fileId, 200,
                             Select(fileData, DocumentFields))
  /\ UNCHANGED <<fileProcessingStatus, disk, pc, params, extractedData, uploadRes, llm>>

\* Faulty variant: every record that is no longer `processing` is listed.
IsNotProcessing(doc) == ~FieldIs(doc, "status", "processing")

IsCompleted(doc) == FieldIs(doc, "status", "completed")

SummaryFields ==
  {"id", "originalName", "documentType", "riskScore", "wordCount",
   "uploadedAt", "completedAt"}

\* Array.from(values).filter(completed).map(summary fields)
Documents(m) ==
  LET completed == SelectSeq(MapValues(m), IsCompleted)
  IN [i \in DOMAIN completed |-> Select(completed[i], SummaryFields)]

\* router.get('/documents')
ListDocuments ==
  /\ Idle
  /\ resp' = Response("listDocuments", 0, 200, Documents(fileProcessingStatus))
  /\ UNCHANGED <<fileProcessingStatus, disk, pc, params, extractedData, uploadRes, llm>>

\* router.delete('/document/:fileId'): path.join throws a TypeError when
\* fileData.filename is undefined, and Express answers 500.
DeleteDocument(fileId) ==
  /\ Idle
  /\ IF ~MapHas(fileProcessingStatus, fileId)
     THEN /\ resp' = Response("deleteDocument", fileId, 404,
                              [error |-> "File not found"])
          /\ UNCHANGED <<fileProcessingStatus, disk>>
     ELSE LET fileData == MapGet(fileProcessingStatus, fileId)
          IN IF ~Has(fileData, "filename")
             THEN /\ resp' = Response("deleteDocument", fileId, 500,
                                      [error |-> "The \"path\" argument must be of type string. Received undefined"])
                  /\ UNCHANGED <<fileProcessingStatus, disk>>
             ELSE /\ disk' = disk \ {[dir |-> "uploads", name |-> fileData.filename]}
                  /\ fileProcessingStatus' = MapDelete(fileProcessingStatus, fileId)
                  /\ resp' = Response("deleteDocument", fileId, 200,
                                      [message |-> "Document deleted successfully"])
  /\ UNCHANGED <<pc, params, extractedData, uploadRes, llm>>

\* ----------------------------------------------------------- specification

\* The steps of one upload's handler and background task after its creation.
Background(fileId) ==
  \/ UploadRespond(fileId)
  \/ ProcessStart(fileId)
  \/ ProcessDispatch(fileId)
  \/ \E text \in ExtractedTexts : ProcessAnalyze(fileId, text)
  \/ ProcessComplete(fileId)
  \/ \E message \in ParserErrors : ProcessCatch(fileId, message)

Next ==
  \/ UploadNoFile
  \/ \E mimetype \in MimeTypes, size \in FileSizes : UploadRejected(mimetype, size)
  \/ \E mimetype \in MimeTypes, originalName \in OriginalNames, size \in FileSizes :
       UploadCreate(mimetype, originalName, size)
  \/ \E fileId \in FileIds : Background(fileId)
  \/ \E fileId \in RequestIds : GetStatus(fileId)
  \/ \E fileId \in RequestIds : GetDocument(fileId)
  \/ ListDocuments
  \/ \E fileId \in RequestIds : DeleteDocument(fileId)

Spec == Init /\ [][Next]_vars

\* The event loop runs every pending segment, and the extractor's promise
\* settles: each upload's next step is eventually taken.
LiveSpec == Spec /\ \A fileId \in FileIds : WF_vars(Background(fileId))

\* ---------------------------------------------------------------- analysis
\* The analysis of one document, from the state in which its extractor has
\* been called, for the texts a parser may return.

RECURSIVE Occurs(_, _)
\* n occurrences of a word, each followed by whitespace.
Occurs(word, n) == IF n = 0 THEN << >> ELSE <<word, WS>> \o Occurs(word, n - 1)

\* A text with c[k] occurrences of the k-th risk keyword, one in mixed case.
RiskText(c) ==
  Occurs(riskKeywords[1], c[1])
  \o (IF c[2] = 0 THEN << >> ELSE <<"Liability", WS>> \o Occurs(riskKeywords[2], c[2] - 1))
  \o Occurs(riskKeywords[3], c[3])
  \o Occurs(riskKeywords[4], c[4])

RiskTexts == {RiskText(c) : c \in [1..Len(riskKeywords) -> 0..MaxCount]}

\* n occurrences of the keywords of types[i], shared between its two keywords.
LabelText(i, n) ==
  Occurs(types[i].keywords[1], n \div 2)
  \o Occurs(IF i = 1 THEN "CONFIDENTIAL" ELSE types[i].keywords[2], n - (n \div 2))

\* A text in which the keywords of types[i] occur sc[i] times.
ClassText(sc) ==
  <<"lorem", WS>> \o LabelText(1, sc[1]) \o LabelText(2, sc[2])
  \o LabelText(3, sc[3]) \o LabelText(4, sc[4])

ClassTexts == {ClassText(sc) : sc \in [1..Len(types) -> 0..MaxScore]}

\* Every text of at most MaxTextLen chunks, each whitespace or a word.
SplitTexts == UNION {[1..n -> {WS, "lorem"}] : n \in 0..MaxTextLen}

AnalysisTexts == RiskTexts \cup ClassTexts \cup SplitTexts

\* The state after the upload of one document whose extractor is pending.
AnalysisInit ==
  \E mimetype \in {PDF, DOCX}, originalName \in OriginalNames :
    LET fileId == 1
        filePath == StoredPath(fileId, originalName)
        fileInfo == FileInfo(fileId, originalName, mimetype, 2048)
    IN /\ fileProcessingStatus =
            <<<<fileId, Spread(fileInfo, [progress |-> 20,
                                          stage |-> "extracting_text"])>>>>
       /\ disk = {filePath}
       /\ pc = <<"awaiting">>
       /\ params = <<[fileId |-> fileId, filePath |-> filePath,
                      mimetype |-> mimetype, fileInfo |-> fileInfo]>>
       /\ extractedData = <<EmptyObject>>
       /\ uploadRes =
            <<<<Response("upload", fileId, 200,
                         [success |-> TRUE, fileId |-> fileId,
                          message |-> "File uploaded successfully. Processing started.",
                          file |-> fileInfo])>>>>
       /\ resp = NoResponse
       /\ llm = << >>

AnalysisNext ==
  \/ \E text \in AnalysisTexts : ProcessAnalyze(1, text)
  \/ ProcessComplete(1)
  \/ GetDocument(1)

AnalysisSpec == AnalysisInit /\ [][AnalysisNext]_vars

\* ------------------------------------------------------------- LLM gateway
\* A reply text is a sequence of chunks: whitespace, a code-fence marker, a
\* JSON document or prose.

\* The chunk of a code-fence opening with the json tag, and of a bare fence.
FenceJson == "<fence>json"
Fence == "<fence>"
JsonChunk == "{json}"

RECURSIVE trimStart(_)
trimStart(text) ==
  IF text # << >> /\ Head(text) = WS THEN trimStart(Tail(text)) ELSE text

RECURSIVE trimEnd(_)
trimEnd(text) ==
  IF text # << >> /\ text[Len(text)] = WS
  THEN trimEnd(SubSeq(text, 1, Len(text) - 1))
  ELSE text

\* String.prototype.trim
trim(text) == trimEnd(trimStart(text))

\* output.startsWith(FenceJson)
startsWithFenceJson(output) == output # << >> /\ Head(output) = FenceJson

\* output.replace(/^FenceJson/, "")
replaceLeadingFenceJson(output) ==
  IF startsWithFenceJson(output) THEN Tail(output) ELSE output

\* output.replace(/Fence$/, "")
replaceTrailingFence(output) ==
  IF output # << >> /\ output[Len(output)] = Fence
  THEN SubSeq(output, 1, Len(output) - 1)
  ELSE output

\* Remove the leading and the trailing fence if present
stripFence(output) ==
  IF startsWithFenceJson(output)
  THEN trim(replaceTrailingFence(replaceLeadingFenceJson(output)))
  ELSE output

\* JSON.parse: whitespace around one JSON document is accepted; anything
\* else throws a SyntaxError.
JsonParse(output) ==
  LET body == trim(output)
  IN IF body = <<JsonChunk>>
     THEN [ok |-> TRUE, value |-> [parsed |-> JsonChunk]]
     ELSE [ok |-> FALSE,
           message |-> IF body = << >> THEN "Unexpected end of JSON input"
                       ELSE "Unexpected token"]

\* What generateContent may resolve with: one candidate with a text, or none.
LlmReplies ==
  { [candidates |-> << >>] }
  \cup { [candidates |-> <<text>>] :
           text \in { << >>,
                      <<JsonChunk>>,
                      <<WS, JsonChunk, WS>>,
                      <<FenceJson, WS, JsonChunk, WS, Fence>>,
                      <<FenceJson, WS, JsonChunk>>,
                      <<Fence, WS, JsonChunk, WS, Fence>>,
                      <<"prose", WS>>,
                      <<FenceJson, WS, "prose", WS, Fence, WS>> } }

\* The messages of the errors generateContent may reject with.
LlmErrors == {"429 Too Many Requests", "fetch failed"}

Endpoints == {"generate-summary", "qna"}

GatewayResponse(op, status, body) == [op |-> op, status |-> status, body |-> body]

\* res.status(500).json({ error: "Failed", details: error.message })
FailedResponse(op, message) ==
  GatewayResponse(op, 500, [error |-> "Failed", details |-> message])

\* The handler up to its await: it calls model.generateContent once.
GatewayRequest(endpoint) ==
  /\ Idle
  /\ Len(llm) < MaxRequests
  /\ llm' = Append(llm, [endpoint |-> endpoint, pc |-> "awaiting", calls |-> 1,
                         result |-> EmptyObject, sent |-> << >>])
  /\ resp' = NoResponse
  /\ UNCHANGED <<fileProcessingStatus, disk, pc, params, extractedData, uploadRes>>

\* The n-th request sends r and ends.
GatewaySend(n, result, r) ==
  /\ llm' = [llm EXCEPT ![n] = [@ EXCEPT !.pc = "done", !.result = result,
                                          !.sent = Append(@, r)]]
  /\ resp' = r
  /\ UNCHANGED <<fileProcessingStatus, disk, pc, params, extractedData, uploadRes>>

\* Faulty variant: a reply that does not parse is returned as it is.
GenerateSummaryReturnsSalvaged(n, reply) ==
  /\ Idle
  /\ n \in DOMAIN llm
  /\ llm[n].endpoint = "generate-summary" /\ llm[n].pc = "awaiting"
  /\ IF reply.candidates = << >>
     THEN GatewaySend(n, reply,
            FailedResponse("generate-summary",
                           "Cannot read properties of undefined"))
     ELSE LET output == stripFence(trim(reply.candidates[1]))
              jsonResponse == JsonParse(output)
          IN IF jsonResponse.ok
             THEN GatewaySend(n, reply,
                    GatewayResponse("generate-summary", 200,
                                    [result |-> jsonResponse.value]))
             ELSE GatewaySend(n, reply,
                    GatewayResponse("generate-summary", 200,
                                    [result |-> output]))

\* generate-summary after its await returned: trim, strip the fence, parse,
\* answer { result }; anything thrown on the way is answered 500.
GenerateSummaryReturns(n, reply) ==
  /\ Idle
  /\ n \in DOMAIN llm
  /\ llm[n].endpoint = "generate-summary" /\ llm[n].pc = "awaiting"
  /\ IF reply.candidates = << >>
     THEN GatewaySend(n, reply,
            FailedResponse("generate-summary",
                           "Cannot read properties of undefined"))
     ELSE LET output == stripFence(trim(reply.candidates[1]))
              jsonResponse == JsonParse(output)
          IN IF jsonResponse.ok
             THEN GatewaySend(n, reply,
                    GatewayResponse("generate-summary", 200,
                                    [result |-> jsonResponse.value]))
             ELSE GatewaySend(n, reply,
                    FailedResponse("generate-summary", jsonResponse.message))

\* qna after its await returned: answer { result: the trimmed text }.
QnaReturns(n, reply) ==
  /\ Idle
  /\ n \in DOMAIN llm
  /\ llm[n].endpoint = "qna" /\ llm[n].pc = "awaiting"
  /\ IF reply.candidates = << >>
     THEN GatewaySend(n, reply,
            FailedResponse("qna", "Cannot read properties of undefined"))
     ELSE GatewaySend(n, reply,
            GatewayResponse("qna", 200, [result |-> trim(reply.candidates[1])]))

\* The awaited generateContent rejects: the catch block answers 500.
LlmCallFails(n, message) ==
  /\ Idle
  /\ n \in DOMAIN llm
  /\ llm[n].pc = "awaiting"
  /\ GatewaySend(n, [rejected |-> message],
                 FailedResponse(llm[n].endpoint, message))

GatewayNext ==
  \/ \E endpoint \in Endpoints : GatewayRequest(endpoint)
  \/ \E n \in 1..MaxRequests, reply \in LlmReplies : GenerateSummaryReturns(n, reply)
  \/ \E n \in 1..MaxRequests, reply \in LlmReplies : QnaReturns(n, reply)
  \/ \E n \in 1..MaxRequests, message \in LlmErrors : LlmCallFails(n, message)

GatewaySpec == Init /\ [][GatewayNext]_vars

\* ------------------------------------------------------------------ claims

Record(fileId) == MapGet(fileProcessingStatus, fileId)

\* stage done, progress 100, and text, type and score all set.
IsDone(r) ==
  /\ FieldIs(r, "stage", "done")
  /\ FieldIs(r, "progress", 100)
  /\ Has(r, "extractedText") /\ Has(r, "documentType") /\ Has(r, "riskScore")

\* status error with an error message.
IsFailed(r) == FieldIs(r, "status", "error") /\ Has(r, "error")

\* C1, as stated: once the extractor has been called for an uploaded file, its
\* record eventually has stage done with progress 100 and text, type and
\* score, or has stage `error` with an error message, and never both.
C1_Original ==
  /\ \A fileId \in FileIds :
       (fileId \in DOMAIN pc /\ pc[fileId] = "awaiting") ~>
         /\ MapHas(fileProcessingStatus, fileId)
         /\ \/ IsDone(Record(fileId))
            \/ /\ FieldIs(Record(fileId), "stage", "error")
               /\ Has(Record(fileId), "error")
  /\ [](\A fileId \in MapKeys(fileProcessingStatus) :
          ~(IsDone(Record(fileId)) /\ FieldIs(Record(fileId), "stage", "error")))

\* C1, amended: under fair scheduling every uploaded file's record eventually
\* has stage done with progress 100 and text, type and score, or has STATUS
\* `error` with an error message (its stage stays where the failure happened),
\* and no record is ever both.
C1_EventuallyTerminal ==
  /\ \A fileId \in FileIds :
       MapHas(fileProcessingStatus, fileId) ~>
         /\ MapHas(fileProcessingStatus, fileId)
         /\ IsDone(Record(fileId)) \/ IsFailed(Record(fileId))
  /\ [](\A fileId \in MapKeys(fileProcessingStatus) :
          ~(IsDone(Record(fileId)) /\ IsFailed(Record(fileId))))

\* One upload has ended done and another has ended in error.
C1_Witness ==
  \E a, b \in MapKeys(fileProcessingStatus) :
    /\ pc[a] = "finished" /\ IsDone(Record(a))
    /\ pc[b] = "finished" /\ IsFailed(Record(b))

\* C2, as stated: right after upload has created the record and sent its
\* response, before any step of processFileAsync, the record has progress 0
\* and stage `processing`.
C2_Original ==
  \A fileId \in DOMAIN pc :
    pc[fileId] = "responded" =>
      /\ MapHas(fileProcessingStatus, fileId)
      /\ FieldIs(Record(fileId), "progress", 0)
      /\ FieldIs(Record(fileId), "stage", "processing")

\* C2, amended: right after upload has created the record and sent its
\* response, before any step of processFileAsync, the record has status
\* `processing` and neither a progress nor a stage field.
C2_AfterUpload ==
  \A fileId \in DOMAIN pc :
    pc[fileId] = "responded" =>
      /\ MapHas(fileProcessingStatus, fileId)
      /\ FieldIs(Record(fileId), "status", "processing")
      /\ ~Has(Record(fileId), "progress")
      /\ ~Has(Record(fileId), "stage")
      /\ Len(uploadRes[fileId]) = 1

\* An upload has sent its response and its task has not started.
C2_Witness ==
  \E fileId \in DOMAIN pc :
    pc[fileId] = "responded" /\ resp.op = "upload" /\ resp.status = 200

\* C3: deleteDocument of an existing fileId succeeds and removes the record,
\* so that a second call finds nothing: every answer of deleteDocument is a
\* success with the record gone, or a 404 for an id that has no record.
C3_DeleteTwice ==
  resp.op = "deleteDocument" =>
    /\ resp.status \in {200, 404}
    /\ ~MapHas(fileProcessingStatus, resp.fileId)

\* C4: a deleteDocument of a fileId that has a record removes the record and
\* the file upload stored for it.
C4_DeleteReleases ==
  [][\A fileId \in DOMAIN pc :
       ( /\ resp'.op = "deleteDocument"
         /\ resp'.fileId = fileId
         /\ MapHas(fileProcessingStatus, fileId) )
       => /\ ~MapHas(fileProcessingStatus', fileId)
          /\ params[fileId].filePath \notin disk']_vars

\* C5: getDocument answers 404 for an id without a record, 202 with the
\* record's current progress for a record that is not completed, and the full
\* payload (type, score, word count, text) for a completed record.
C5_GetDocument ==
  resp.op = "getDocument" =>
    IF ~MapHas(fileProcessingStatus, resp.fileId)
    THEN resp.status = 404
    ELSE LET r == Record(resp.fileId)
         IN IF ~FieldIs(r, "status", "completed")
            THEN /\ resp.status = 202
                 /\ Has(r, "progress")
                 /\ FieldIs(resp.body, "progress", r.progress)
            ELSE /\ resp.status = 200
                 /\ \A k \in {"documentType", "riskScore", "wordCount",
                              "extractedText"} :
                      Has(r, k) /\ FieldIs(resp.body, k, r[k])

\* getDocument has answered with the payload of a completed record while
\* another record is not completed.
C5_Witness ==
  /\ resp.op = "getDocument"
  /\ resp.status = 200
  /\ \E other \in MapKeys(fileProcessingStatus) :
       ~FieldIs(Record(other), "status", "completed")

\* C6: no step lowers the progress of a record, or takes it away, from the
\* creation of the record through every step of the task, failure included.
C6_ProgressMonotone ==
  [][\A fileId \in MapKeys(fileProcessingStatus) :
       ( /\ Has(Record(fileId), "progress")
         /\ MapHas(fileProcessingStatus', fileId) )
       => LET after == MapGet(fileProcessingStatus', fileId)
          IN /\ Has(after, "progress")
             /\ after.progress >= Record(fileId).progress]_vars

\* One task has failed at progress 20 and another has reached progress 100.
C6_Witness ==
  \E a, b \in MapKeys(fileProcessingStatus) :
    /\ IsFailed(Record(a)) /\ FieldIs(Record(a), "progress", 20)
    /\ FieldIs(Record(b), "progress", 100)

IsTerminal(r) == FieldIs(r, "status", "completed") \/ FieldIs(r, "status", "error")

\* C7: a record that is completed or in error is never changed again, so a
\* completed record never becomes an error and an error never completes; and
\* no record is both done and in error.
C7_OneTerminalState ==
  /\ [][\A fileId \in MapKeys(fileProcessingStatus) :
          ( /\ IsTerminal(Record(fileId))
            /\ MapHas(fileProcessingStatus', fileId) )
          => MapGet(fileProcessingStatus', fileId) = Record(fileId)]_vars
  /\ [](\A fileId \in MapKeys(fileProcessingStatus) :
          ~( /\ FieldIs(Record(fileId), "stage", "done")
             /\ FieldIs(Record(fileId), "status", "error") ))

\* Both terminal states are reached, and steps are taken after them.
C7_Witness ==
  /\ \E a, b \in MapKeys(fileProcessingStatus) :
       /\ FieldIs(Record(a), "status", "completed")
       /\ FieldIs(Record(b), "status", "error")
  /\ resp.op = "getStatus"

\* C8: in every state a record has extracted text, document type and risk
\* score all three, or none of them.
C8_FieldsTogether ==
  \A fileId \in MapKeys(fileProcessingStatus) :
    LET r == Record(fileId)
    IN /\ Has(r, "extractedText") <=> Has(r, "documentType")
       /\ Has(r, "documentType") <=> Has(r, "riskScore")

\* getStatus has returned a record with the three fields while another record
\* is between extraction and completion without them.
C8_Witness ==
  /\ resp.op = "getStatus" /\ resp.status = 200
  /\ Has(resp.body, "extractedText") /\ Has(resp.body, "riskScore")
  /\ \E other \in MapKeys(fileProcessingStatus) :
       ~Has(Record(other), "extractedText")

\* C9: the upload request's response is sent after the record is created and
\* before the task starts extracting; it is the only response of the request,
\* and nothing that happens later changes it or adds another.
C9_RespondsOnce ==
  /\ [](\A fileId \in DOMAIN pc :
          /\ pc[fileId] = "created" =>
               uploadRes[fileId] = << >> /\ MapHas(fileProcessingStatus, fileId)
          /\ pc[fileId] # "created" =>
               /\ Len(uploadRes[fileId]) = 1
               /\ uploadRes[fileId][1].status = 200
               /\ uploadRes[fileId][1].body.fileId = fileId)
  /\ [][\A fileId \in DOMAIN pc :
          uploadRes[fileId] # << >> => uploadRes'[fileId] = uploadRes[fileId]]_vars

\* An extraction has failed after the upload's response was sent.
C9_Witness ==
  \E fileId \in DOMAIN pc :
    /\ pc[fileId] = "finished"
    /\ params[fileId].mimetype = PDF
    /\ IsFailed(Record(fileId))
    /\ Len(uploadRes[fileId]) = 1

\* C10: every MIME type the upload filter accepts is dispatched to an
\* extractor: the unsupported-format error is never recorded for a file whose
\* MIME type is one of the allowed types.
C10_AcceptedTypesExtract ==
  \A fileId \in DOMAIN pc :
    params[fileId].mimetype \in allowedTypes =>
      ~FieldIs(Record(fileId), "error", "Unsupported file type")

\* C11: listDocuments returns exactly the completed (stage done) records of
\* the registry, each once: no record that is processing or in error, and no
\* id without a record, is listed.
C11_ListDocuments ==
  resp.op = "listDocuments" =>
    LET completedIds ==
          {fileId \in MapKeys(fileProcessingStatus) :
             /\ FieldIs(Record(fileId), "status", "completed")
             /\ FieldIs(Record(fileId), "stage", "done")}
    IN /\ resp.status = 200
       /\ \A i \in DOMAIN resp.body : Has(resp.body[i], "id")
       /\ {resp.body[i].id : i \in DOMAIN resp.body} = completedIds
       /\ Len(resp.body) = Cardinality(completedIds)

\* listDocuments has listed a completed record while another record is in
\* error.
C11_Witness ==
  /\ resp.op = "listDocuments"
  /\ Len(resp.body) = 1
  /\ \E other \in MapKeys(fileProcessingStatus) :
       FieldIs(Record(other), "status", "error")

\* Case-insensitive number of the chunks of a text that are one of the words.
CountIn(text, words) ==
  Cardinality({i \in DOMAIN text : LowerChunk(text[i]) \in words})

RiskCounts(text) ==
  [k \in DOMAIN riskKeywords |-> CountIn(text, {riskKeywords[k]})]

\* C12: the risk score of a completed record is min(round(total/12*100), 100)
\* of the total number of risk-keyword occurrences: an integer of 0..100, 0
\* for no occurrence, 100 when every keyword occurs at least 3 times, 25 for
\* liability x2 and termination x1, and no lower with one more occurrence.
C12_RiskScore ==
  \A fileId \in MapKeys(fileProcessingStatus) :
    Has(Record(fileId), "riskScore") =>
      LET text == Record(fileId).extractedText
          score == Record(fileId).riskScore
          count == RiskCounts(text)
          total == count[1] + count[2] + count[3] + count[4]
      IN /\ score \in 0..100
         /\ total = 0 => score = 0
         /\ (\A k \in DOMAIN count : count[k] >= 3) => score = 100
         /\ count = <<0, 2, 0, 1>> => score = 25
         /\ total >= 12 => score = 100
         /\ total < 12 => /\ 12 * score - 100 * total <= 6
                          /\ 100 * total - 12 * score <= 6
         /\ \A k \in DOMAIN riskKeywords :
              calculateRiskScore(text \o <<riskKeywords[k]>>) >= score

\* A record was scored 25 for liability x2 and termination x1, and getDocument
\* returned that score.
C12_Witness ==
  /\ resp.op = "getDocument" /\ resp.status = 200
  /\ FieldIs(resp.body, "riskScore", 25)
  /\ RiskCounts(Record(1).extractedText) = <<0, 2, 0, 1>>

LabelScores(text) ==
  [i \in DOMAIN types |->
     CountIn(text, {types[i].keywords[j] : j \in DOMAIN types[i].keywords})]

\* C13: the document type of a completed record is `Unknown` when no label's
\* keyword occurs, and otherwise the first label in table order among those
\* with the highest keyword score.
C13_Classify ==
  \A fileId \in MapKeys(fileProcessingStatus) :
    Has(Record(fileId), "documentType") =>
      LET sc == LabelScores(Record(fileId).extractedText)
          best == CHOOSE i \in DOMAIN sc : \A j \in DOMAIN sc : sc[i] >= sc[j]
          first == CHOOSE i \in DOMAIN sc :
                     /\ sc[i] = sc[best]
                     /\ \A j \in DOMAIN sc : sc[j] = sc[best] => i <= j
      IN IF \A i \in DOMAIN sc : sc[i] = 0
         THEN Record(fileId).documentType = "Unknown"
         ELSE Record(fileId).documentType = types[first].type

\* A text in which two labels tie for the highest score, above the first
\* label, was classified as the earlier of the two.
C13_Witness ==
  /\ pc = <<"finished">>
  /\ FieldIs(Record(1), "documentType", "Employment Agreement")
  /\ LET sc == LabelScores(Record(1).extractedText)
     IN sc[1] < sc[2] /\ sc[2] = sc[3] /\ sc[4] < sc[2]

\* The number of whitespace-delimited tokens: the maximal runs of chunks that
\* are not whitespace.
TokenCount(text) ==
  Cardinality({i \in DOMAIN text :
                 text[i] # WS /\ (i = 1 \/ text[i - 1] = WS)})

\* C14: the wordCount of a completed record is the number of
\* whitespace-delimited tokens of its extracted text, for the empty text and
\* for texts that begin or end with whitespace too.
C14_WordCount ==
  \A fileId \in MapKeys(fileProcessingStatus) :
    Has(Record(fileId), "wordCount") =>
      Record(fileId).wordCount = TokenCount(Record(fileId).extractedText)

NotWs(c) == c # WS

\* Whether a reply text, without its whitespace and without a leading json
\* fence and the fence that closes it, is one JSON document.
ParsesAfterStripping(text) ==
  LET nw == SelectSeq(text, NotWs)
      inner == IF nw # << >> /\ nw[1] = FenceJson
               THEN LET t == Tail(nw)
                    IN IF t # << >> /\ t[Len(t)] = Fence
                       THEN SubSeq(t, 1, Len(t) - 1)
                       ELSE t
               ELSE nw
  IN inner = <<JsonChunk>>

\* C15: every generate-summary and qna request makes at most one LLM call and
\* sends exactly one response once the call has ended: 500 {error, details}
\* with the message when the call fails, and for generate-summary also when
\* the text is not JSON after the fence is stripped (the text itself is not
\* returned); otherwise {result}.
C15_GatewayResponses ==
  \A n \in DOMAIN llm :
    LET q == llm[n]
    IN /\ q.calls <= 1
       /\ q.pc = "awaiting" => q.sent = << >>
       /\ q.pc = "done" =>
            /\ Len(q.sent) = 1
            /\ q.sent[1].op = q.endpoint
            /\ LET r == q.sent[1]
                   failed == /\ r.status = 500
                             /\ DOMAIN r.body = {"error", "details"}
                             /\ r.body.error = "Failed"
               IN IF Has(q.result, "rejected")
                  THEN failed /\ r.body.details = q.result.rejected
                  ELSE IF q.result.candidates = << >>
                  THEN failed
                  ELSE IF q.endpoint = "qna"
                  THEN r.status = 200 /\ DOMAIN r.body = {"result"}
                  ELSE IF ParsesAfterStripping(q.result.candidates[1])
                  THEN /\ r.status = 200
                       /\ r.body = [result |-> [parsed |-> JsonChunk]]
                  ELSE failed

\* A generate-summary request was answered 500 for a fenced text that is not
\* JSON, and another request for a failed LLM call.
C15_Witness ==
  \E a, b \in DOMAIN llm :
    /\ llm[a].endpoint = "generate-summary" /\ llm[a].pc = "done"
    /\ Has(llm[a].result, "candidates")
    /\ llm[a].result.candidates # << >>
    /\ startsWithFenceJson(llm[a].result.candidates[1])
    /\ llm[a].sent[1].status = 500
    /\ llm[b].pc = "done" /\ Has(llm[b].result, "rejected")

\* The record a file ends with when it is the only one processed: its
\* fileInfo, then the updates of its own task in their order.
AloneDone(fileId) ==
  LET text == extractedData[fileId].text
  IN Spread(params[fileId].fileInfo,
            [progress |-> 100, status |-> "completed", stage |-> "done",
             extractedText |-> text,
             documentType |-> classifyDocument(text),
             riskScore |-> calculateRiskScore(text),
             wordCount |-> SplitWhitespaceLength(text)])

AloneFailed(fileId, message) ==
  Spread(params[fileId].fileInfo,
         [progress |-> 20, stage |-> "extracting_text",
          status |-> "error", error |-> message])

\* C16: a record changes only in the steps of its own upload and task, so no
\* step of another file's task touches it; and a finished task leaves the
\* record it would leave if its file were the only one: the result of its own
\* fileInfo, text or error.
C16_Independent ==
  /\ [][\A fileId \in DOMAIN pc :
          pc'[fileId] = pc[fileId] =>
            /\ MapHas(fileProcessingStatus, fileId)
                 <=> MapHas(fileProcessingStatus', fileId)
            /\ MapHas(fileProcessingStatus, fileId) =>
                 MapGet(fileProcessingStatus', fileId) = Record(fileId)]_vars
  /\ [](\A fileId \in DOMAIN pc :
          pc[fileId] = "finished" =>
            /\ MapHas(fileProcessingStatus, fileId)
            /\ IF Has(extractedData[fileId], "text")
               THEN Record(fileId) = AloneDone(fileId)
               ELSE \E message \in ParserErrors \cup {"Unsupported file type"} :
                      /\ message = "Unsupported file type"
                           <=> params[fileId].mimetype = DOC
                      /\ Record(fileId) = AloneFailed(fileId, message))

\* The second upload was processed to the end while the first one's extractor
\* was still pending.
C16_Witness ==
  /\ Len(pc) = 2
  /\ pc[1] = "awaiting"
  /\ pc[2] = "finished"
  /\ IsDone(Record(2))

\* The stage of a record, "none" when it has no stage field.
StageOf(r) == IF Has(r, "stage") THEN r.stage ELSE "none"

\* The progress that goes with a stage.
ProgressMatches(r) ==
  /\ FieldIs(r, "stage", "extracting_text") => FieldIs(r, "progress", 20)
  /\ FieldIs(r, "stage", "analyzing_content") => FieldIs(r, "progress", 70)
  /\ FieldIs(r, "stage", "done") => FieldIs(r, "progress", 100)

\* A record in error was never in analyzing_content or done: it stands at
\* extracting_text, with the message of the failure.
FailedAtExtraction(fileId) ==
  FieldIs(Record(fileId), "status", "error") =>
    /\ FieldIs(Record(fileId), "stage", "extracting_text")
    /\ Has(Record(fileId), "error")
    /\ params[fileId].mimetype # DOC => Record(fileId).error \in ParserErrors

\* Each step keeps the stage of a record or moves it to the next of `order`.
StageSteps(order) ==
  \A fileId \in MapKeys(fileProcessingStatus) :
    MapHas(fileProcessingStatus', fileId) =>
      LET from == StageOf(Record(fileId))
          to == StageOf(MapGet(fileProcessingStatus', fileId))
      IN \/ to = from
         \/ \E i \in 1..(Len(order) - 1) : from = order[i] /\ to = order[i + 1]

\* C17, as stated: every record has one of the stages processing,
\* extracting_text, analyzing_content, done, starting with processing; each
\* step keeps the stage or moves it to the next one; the progress is 20, 70,
\* 100 in the last three; a record in error stands at extracting_text.
C17_Original ==
  /\ [][StageSteps(<<"processing", "extracting_text", "analyzing_content",
                     "done">>)]_vars
  /\ [](\A fileId \in MapKeys(fileProcessingStatus) :
          /\ StageOf(Record(fileId)) \in
               {"processing", "extracting_text", "analyzing_content", "done"}
          /\ ProgressMatches(Record(fileId))
          /\ FailedAtExtraction(fileId))

\* C17, amended: a record has no stage field when it is created (its status
\* is `processing`); its stage then changes only along extracting_text ->
\* analyzing_content -> done, none skipped or revisited; the progress is 20,
\* 70, 100 in these stages; a record in error stands at extracting_text with
\* the message of the failure.
C17_StageOrder ==
  /\ [][StageSteps(<<"none", "extracting_text", "analyzing_content",
                     "done">>)]_vars
  /\ [](\A fileId \in MapKeys(fileProcessingStatus) :
          /\ StageOf(Record(fileId)) \in
               {"none", "extracting_text", "analyzing_content", "done"}
          /\ StageOf(Record(fileId)) = "none" <=> pc[fileId] \in {"created", "responded"}
          /\ ProgressMatches(Record(fileId))
          /\ FailedAtExtraction(fileId))

\* One task went through every stage to done and another failed in its
\* parser at extracting_text.
C17_Witness ==
  \E a, b \in MapKeys(fileProcessingStatus) :
    /\ FieldIs(Record(a), "stage", "done")
    /\ FieldIs(Record(b), "status", "error")
    /\ FieldIs(Record(b), "stage", "extracting_text")
    /\ Record(b).error \in ParserErrors

\* C18: in every state a record has an error message exactly when its status
\* is `error`, has extracted text exactly when its status is `completed`
\* (with stage done and progress 100), and never has both.
C18_ErrorXorText ==
  \A fileId \in MapKeys(fileProcessingStatus) :
    LET r == Record(fileId)
    IN /\ Has(r, "error") <=> FieldIs(r, "status", "error")
       /\ Has(r, "extractedText") <=> FieldIs(r, "status", "completed")
       /\ FieldIs(r, "status", "completed") =>
            FieldIs(r, "stage", "done") /\ FieldIs(r, "progress", 100)
       /\ ~(Has(r, "error") /\ Has(r, "extractedText"))

\* getStatus has returned a record in error with its message, while another
\* record is completed with its text.
C18_Witness ==
  /\ resp.op = "getStatus" /\ resp.status = 200
  /\ FieldIs(resp.body, "status", "error") /\ Has(resp.body, "error")
  /\ \E other \in MapKeys(fileProcessingStatus) :
       FieldIs(Record(other), "status", "completed")
       /\ Has(Record(other), "extractedText")

\* C19: after deleteDocument has acted on the record of a fileId whose task
\* is still running, the record is gone and stays gone: the getStatus or
\* getDocument that follows for that fileId is answered 404.
C19_DeletedStaysDeleted ==
  [][( /\ resp.op = "deleteDocument"
       /\ resp.status # 404
       /\ pc[resp.fileId] = "awaiting"
       /\ resp'.op \in {"getStatus", "getDocument"}
       /\ resp'.fileId = resp.fileId )
     => resp'.status = 404]_vars

====
